---- MODULE Spec2Model ----
(***************************************************************************)
(* Access control and dashboard routing of event_craft (Django).          *)
(*                                                                         *)
(* One browser client talks to the application.  The state is the user    *)
(* table, the client's session, the outcome of the last request and the   *)
(* messages that request queued with django.contrib.messages.             *)
(* Every request handler is an operator from the session user to a        *)
(* Result: the response, the messages it queued, and the session and the  *)
(* user table it leaves behind.                                           *)
(*                                                                         *)
(* Spec is the access-control layer over an arbitrary user table.  The    *)
(* other specifications start from an empty site and add what the guards  *)
(* do not touch: sign-up and activation mail, RSVPs, the participant and  *)
(* event forms, and the browser following redirects.                      *)
(***************************************************************************)
EXTENDS Integers, Sequences, FiniteSets

VARIABLES
    users,         \* the user table: id -> row
    session,       \* the user the client's session names, or Anonymous
    response,      \* outcome of the last request
    messages,      \* messages the last request queued
    request,       \* what the last request submitted (URL arguments, form)
    tokens,        \* activation_token stored for each registered user
    mail,          \* send_mail calls made while serving the last request
    events,        \* the event table: pk -> [date, rsvp_users]
    participants,  \* the participant table: pk -> email
    today,         \* timezone.now().date()
    chain          \* redirects the browser followed since its last own request

vars ==
    <<users, session, response, messages, request, tokens, mail, events,
      participants, today, chain>>

\* Number of rows of the user table.  Every row takes every combination of
\* its attributes in Init, so one row already gives the client every
\* identity a guard can meet.
NumUsers == 1

Users == 1..NumUsers

\* request.user of a client without a session (django AnonymousUser:
\* is_authenticated False, is_superuser False, no groups).
Anonymous == 0

GroupNames == {"Admin", "Organizer", "Participant"}

\* A row of the user table.  has_profile tells whether request.user.profile
\* resolves (decorators.py reads the activation flag through it); the flag
\* itself is is_activated.
UserRows ==
    [is_superuser : BOOLEAN, is_active : BOOLEAN, is_activated : BOOLEAN,
     has_profile : BOOLEAN, groups : SUBSET GroupNames]

---------------------------------------------------------------------------
(* request.user and the framework calls the handlers make *)

is_authenticated(u) == u # Anonymous

is_superuser(u) == u # Anonymous /\ users[u].is_superuser

\* request.user.groups.filter(name=g).exists() / g in values_list('name')
in_group(u, g) == u # Anonymous /\ g \in users[u].groups

Msg(level, text) == [level |-> level, text |-> text]

\* redirect(name): the view body did not run; the client is sent to `name`.
redirect(to, msgs, sess) ==
    [status |-> "redirect", target |-> to, messages |-> msgs,
     session |-> sess, users |-> users]

\* The wrapped view function / the class-based view's own handler ran.
view_func(body, sess) ==
    [status |-> "render", target |-> body, messages |-> <<>>,
     session |-> sess, users |-> users]

\* django.contrib.auth.logout(request): the session is flushed.
logout(u) == Anonymous

---------------------------------------------------------------------------
(* decorators.py *)

MSG_ACTIVATE_LOGGED_OUT ==
    Msg("error", "Please activate your account. We just logged you out.")
MSG_PLEASE_LOGIN == Msg("error", "Please login to access this page.")
MSG_NO_PERMISSION ==
    Msg("error", "You do not have permission to access this page.")

\* Mutant of activation_required: the denial also deactivates the account.
activation_required_deactivating(u, body) ==
    IF is_authenticated(u) /\ users[u].has_profile /\ ~users[u].is_activated
    THEN [status |-> "redirect", target |-> "login",
          messages |-> <<MSG_ACTIVATE_LOGGED_OUT>>, session |-> logout(u),
          users |-> [users EXCEPT ![u].is_active = FALSE]]
    ELSE view_func(body, u)

activation_required(u, body) ==
    IF is_authenticated(u) /\ users[u].has_profile /\ ~users[u].is_activated
    THEN redirect("login", <<MSG_ACTIVATE_LOGGED_OUT>>, logout(u))
    ELSE view_func(body, u)

admin_required(u, body) ==
    IF ~is_authenticated(u)
    THEN redirect("login", <<MSG_PLEASE_LOGIN>>, u)
    ELSE IF ~in_group(u, "Admin") /\ ~is_superuser(u)
    THEN redirect("dashboard", <<MSG_NO_PERMISSION>>, u)
    ELSE view_func(body, u)

organizer_required(u, body) ==
    IF ~is_authenticated(u)
    THEN redirect("login", <<MSG_PLEASE_LOGIN>>, u)
    ELSE IF ~(\E g \in {"Admin", "Organizer"} : in_group(u, g))
            /\ ~is_superuser(u)
    THEN redirect("dashboard", <<MSG_NO_PERMISSION>>, u)
    ELSE view_func(body, u)

participant_required(u, body) ==
    IF ~is_authenticated(u)
    THEN redirect("login", <<MSG_PLEASE_LOGIN>>, u)
    ELSE view_func(body, u)

---------------------------------------------------------------------------
(* views.py: mixins *)

\* AccessMixin.handle_no_permission as the mixins inherit it when they do
\* not override it: an authenticated user gets 403, anyone else is sent to
\* login_url = 'login' and no message is queued.
AccessMixin_handle_no_permission(u) ==
    IF is_authenticated(u)
    THEN [status |-> "forbidden", target |-> "403", messages |-> <<>>,
          session |-> u, users |-> users]
    ELSE redirect("login", <<>>, u)

\* LoginRequiredMixin.dispatch with the inherited handle_no_permission.
LoginRequiredMixin(u, body) ==
    IF ~is_authenticated(u)
    THEN AccessMixin_handle_no_permission(u)
    ELSE view_func(body, u)

\* Mutant of AdminRequiredMixin.test_func: the superuser override is lost.
AdminRequiredMixin_test_func_groups_only(u) ==
    in_group(u, "Admin")

AdminRequiredMixin_test_func(u) ==
    in_group(u, "Admin") \/ is_superuser(u)

AdminRequiredMixin_handle_no_permission(u) ==
    redirect("dashboard", <<MSG_NO_PERMISSION>>, u)

\* MRO: LoginRequiredMixin.dispatch, then UserPassesTestMixin.dispatch; both
\* call self.handle_no_permission(), which the class overrides.
AdminRequiredMixin(u, body) ==
    IF ~is_authenticated(u)
    THEN AdminRequiredMixin_handle_no_permission(u)
    ELSE IF ~AdminRequiredMixin_test_func(u)
    THEN AdminRequiredMixin_handle_no_permission(u)
    ELSE view_func(body, u)

OrganizerRequiredMixin_test_func(u) ==
    (\E g \in {"Admin", "Organizer"} : in_group(u, g)) \/ is_superuser(u)

OrganizerRequiredMixin_handle_no_permission(u) ==
    redirect("dashboard", <<MSG_NO_PERMISSION>>, u)

OrganizerRequiredMixin(u, body) ==
    IF ~is_authenticated(u)
    THEN OrganizerRequiredMixin_handle_no_permission(u)
    ELSE IF ~OrganizerRequiredMixin_test_func(u)
    THEN OrganizerRequiredMixin_handle_no_permission(u)
    ELSE view_func(body, u)

ParticipantRequiredMixin(u, body) == LoginRequiredMixin(u, body)

---------------------------------------------------------------------------
(* views.py: dashboards *)

AdminDashboardView(u) == AdminRequiredMixin(u, "AdminDashboardView")

OrganizerDashboardView(u) ==
    OrganizerRequiredMixin(u, "OrganizerDashboardView")

ParticipantDashboardView(u) ==
    ParticipantRequiredMixin(u, "ParticipantDashboardView")

MSG_ACTIVATE_FIRST == Msg("error", "Please activate your account first.")

\* Mutant of DashboardView.get: the Organizer branch is tested first.
DashboardView_get_organizer_first(u) ==
    IF ~users[u].is_activated /\ ~users[u].is_superuser
    THEN redirect("login", <<MSG_ACTIVATE_FIRST>>, u)
    ELSE IF in_group(u, "Organizer")
    THEN OrganizerDashboardView(u)
    ELSE IF users[u].is_superuser \/ in_group(u, "Admin")
    THEN AdminDashboardView(u)
    ELSE ParticipantDashboardView(u)

\* DashboardView.get: the activation check, then the delegation to a role
\* dashboard, which runs that view's own dispatch on the same request.
DashboardView_get(u) ==
    IF ~users[u].is_activated /\ ~users[u].is_superuser
    THEN redirect("login", <<MSG_ACTIVATE_FIRST>>, u)
    ELSE IF users[u].is_superuser \/ in_group(u, "Admin")
    THEN AdminDashboardView(u)
    ELSE IF in_group(u, "Organizer")
    THEN OrganizerDashboardView(u)
    ELSE ParticipantDashboardView(u)

DashboardView(u) ==
    IF ~is_authenticated(u)
    THEN AccessMixin_handle_no_permission(u)
    ELSE DashboardView_get(u)

---------------------------------------------------------------------------
(* views.py: participant management *)

ParticipantListView(u) == AdminRequiredMixin(u, "ParticipantListView")
ParticipantDetailView(u) == AdminRequiredMixin(u, "ParticipantDetailView")
ParticipantUpdateView(u) == AdminRequiredMixin(u, "ParticipantUpdateView")
ParticipantDeleteView(u) == AdminRequiredMixin(u, "ParticipantDeleteView")
ParticipantCreateView(u) ==
    OrganizerRequiredMixin(u, "ParticipantCreateView")

---------------------------------------------------------------------------
(* views.py: authentication views *)

MSG_ACTIVATE_CHECK_EMAIL ==
    Msg("error", "Please activate your account first. Check your email for the activation link.")
MSG_WELCOME_BACK == Msg("success", "Welcome back")
MSG_INVALID_LOGIN == Msg("error", "Invalid username or password.")
MSG_LOGGED_OUT == Msg("success", "You have been logged out successfully.")
MSG_ACTIVATED ==
    Msg("success", "Your account has been activated successfully! You can now login.")
MSG_BAD_LINK == Msg("error", "Activation link is invalid or has expired.")

\* LoginView.dispatch + post.  cred is what authenticate() returned: a user
\* of the table, or Anonymous for None.
LoginView_post(u, cred) ==
    IF is_authenticated(u)
    THEN redirect("dashboard", <<>>, u)
    ELSE IF cred # Anonymous
    THEN IF ~users[cred].is_active
         THEN redirect("login", <<MSG_ACTIVATE_CHECK_EMAIL>>, u)
         ELSE redirect("dashboard", <<MSG_WELCOME_BACK>>, cred)
    ELSE [status |-> "render", target |-> "LoginView",
          messages |-> <<MSG_INVALID_LOGIN>>, session |-> u, users |-> users]

\* LoginView.dispatch + get.
LoginView_get(u) ==
    IF is_authenticated(u)
    THEN redirect("dashboard", <<>>, u)
    ELSE view_func("LoginView", u)

LogoutView(u) ==
    IF ~is_authenticated(u)
    THEN AccessMixin_handle_no_permission(u)
    ELSE redirect("login", <<MSG_LOGGED_OUT>>, logout(u))

\* ActivateAccountView.get.  uid is the user the link's uidb64 decodes to
\* (Anonymous when it names no user), token_ok is check_token's answer.
ActivateAccountView(u, uid, token_ok) ==
    IF uid # Anonymous /\ token_ok
    THEN [status |-> "redirect", target |-> "login",
          messages |-> <<MSG_ACTIVATED>>, session |-> u,
          users |-> [users EXCEPT ![uid].is_active = TRUE,
                                  ![uid].is_activated = TRUE]]
    ELSE redirect("login", <<MSG_BAD_LINK>>, u)

---------------------------------------------------------------------------
(* The state machine: one action per request handler *)

NoResponse ==
    [view |-> "none", user |-> Anonymous, status |-> "none", target |-> "none"]

\* The database holds any rows; nobody is logged in and nothing was served.
NoRequest == [kind |-> "none"]

\* No event, no participant, no mail, no redirect followed.
EmptySite ==
    /\ request = NoRequest
    /\ tokens = <<>>
    /\ mail = <<>>
    /\ events = <<>>
    /\ participants = <<>>
    /\ today = 0
    /\ chain = <<>>

Init ==
    /\ users \in [Users -> UserRows]
    /\ session = Anonymous
    /\ response = NoResponse
    /\ messages = <<>>
    /\ EmptySite

\* r is what the handler of `view` computed for request.user = session.
Respond(view, r) ==
    /\ users' = r.users
    /\ session' = r.session
    /\ messages' = r.messages
    /\ response' = [view |-> view, user |-> session,
                    status |-> r.status, target |-> r.target]

\* The client requests `view` itself (a link, the address bar).
Serve(view, r) ==
    /\ Respond(view, r)
    /\ chain' = <<>>
    /\ UNCHANGED <<request, tokens, mail, events, participants, today>>

GetActivationRequired ==
    Serve("activation_required", activation_required(session, "view_func"))
GetAdminRequired ==
    Serve("admin_required", admin_required(session, "view_func"))
GetOrganizerRequired ==
    Serve("organizer_required", organizer_required(session, "view_func"))
GetParticipantRequired ==
    Serve("participant_required", participant_required(session, "view_func"))

GetDashboard == Serve("DashboardView", DashboardView(session))
GetAdminDashboard == Serve("AdminDashboardView", AdminDashboardView(session))
GetOrganizerDashboard ==
    Serve("OrganizerDashboardView", OrganizerDashboardView(session))
GetParticipantDashboard ==
    Serve("ParticipantDashboardView", ParticipantDashboardView(session))

GetParticipantList ==
    Serve("ParticipantListView", ParticipantListView(session))
GetParticipantDetail ==
    Serve("ParticipantDetailView", ParticipantDetailView(session))
GetParticipantCreate ==
    Serve("ParticipantCreateView", ParticipantCreateView(session))
GetParticipantUpdate ==
    Serve("ParticipantUpdateView", ParticipantUpdateView(session))
GetParticipantDelete ==
    Serve("ParticipantDeleteView", ParticipantDeleteView(session))

GetLogin == Serve("LoginView", LoginView_get(session))
PostLogin ==
    \E cred \in Users \cup {Anonymous} :
        Serve("LoginView", LoginView_post(session, cred))
GetLogout == Serve("LogoutView", LogoutView(session))
GetActivate ==
    \E uid \in Users \cup {Anonymous}, token_ok \in BOOLEAN :
        Serve("ActivateAccountView",
              ActivateAccountView(session, uid, token_ok))

Next ==
    \/ GetActivationRequired
    \/ GetAdminRequired
    \/ GetOrganizerRequired
    \/ GetParticipantRequired
    \/ GetDashboard
    \/ GetAdminDashboard
    \/ GetOrganizerDashboard
    \/ GetParticipantDashboard
    \/ GetParticipantList
    \/ GetParticipantDetail
    \/ GetParticipantCreate
    \/ GetParticipantUpdate
    \/ GetParticipantDelete
    \/ GetLogin
    \/ PostLogin
    \/ GetLogout
    \/ GetActivate

Spec == Init /\ [][Next]_vars

---------------------------------------------------------------------------
(* Vocabulary of the properties *)

DecoratorViews ==
    {"activation_required", "admin_required", "organizer_required",
     "participant_required"}

RoleDashboards ==
    {"AdminDashboardView", "OrganizerDashboardView",
     "ParticipantDashboardView"}

ParticipantViews ==
    {"ParticipantListView", "ParticipantDetailView", "ParticipantCreateView",
     "ParticipantUpdateView", "ParticipantDeleteView"}

\* Views behind AdminRequiredMixin / admin_required.
AdminGuarded ==
    {"admin_required", "AdminDashboardView", "ParticipantListView",
     "ParticipantDetailView", "ParticipantUpdateView",
     "ParticipantDeleteView"}

\* Views behind OrganizerRequiredMixin / organizer_required.
OrganizerGuarded ==
    {"organizer_required", "OrganizerDashboardView", "ParticipantCreateView"}

\* Guards that check activation.
ActivationGuarded == {"DashboardView", "activation_required"}

GuardViews ==
    DecoratorViews \cup RoleDashboards \cup ParticipantViews
        \cup {"DashboardView"}

Served(v) == response.view = v
ByAnonymous == response.user = Anonymous
Rendered == response.status = "render"
RedirectedTo(t) == response.status = "redirect" /\ response.target = t
Requester == users[response.user]

IsAdmin(row) == row.is_superuser \/ "Admin" \in row.groups
IsOrganizerOrAdmin(row) == IsAdmin(row) \/ "Organizer" \in row.groups

---------------------------------------------------------------------------
\* C1: a request by a client that is not authenticated is denied by every
\* guard variant with a redirect to login: the guarded view body does not
\* run and the redirect never goes to dashboard.
C1_UnauthenticatedRedirectsToLogin ==
    (response.view \in GuardViews /\ ByAnonymous) => RedirectedTo("login")

\* C2: when a guard that checks activation sends an authenticated identity
\* to login because it is not activated, the session is terminated by the
\* time the guard returns.
C2_NotActivatedDenialLogsOut ==
    (response.view \in ActivationGuarded /\ ~ByAnonymous
        /\ RedirectedTo("login"))
    => session = Anonymous

\* The dashboard the precedence Admin > Organizer > Participant names.
DashboardOf(row) ==
    IF IsAdmin(row) THEN "AdminDashboardView"
    ELSE IF "Organizer" \in row.groups THEN "OrganizerDashboardView"
    ELSE "ParticipantDashboardView"

\* C3: DashboardView renders, for an authenticated identity that is
\* activated or superuser, exactly the dashboard of its role: Admin for a
\* superuser or a member of Admin, else Organizer for a member of
\* Organizer, else Participant.
C3_DashboardPrecedence ==
    (Served("DashboardView") /\ ~ByAnonymous
        /\ (Requester.is_activated \/ Requester.is_superuser))
    => (Rendered /\ response.target = DashboardOf(Requester))

\* C3 witness: a member of both Admin and Organizer, not superuser, was
\* routed to the admin dashboard.
C3_Witness ==
    /\ Served("DashboardView") /\ ~ByAnonymous
    /\ ~Requester.is_superuser
    /\ {"Admin", "Organizer"} \subseteq Requester.groups
    /\ Rendered /\ response.target = "AdminDashboardView"

\* C4: both guards that check activation deny an authenticated identity
\* (redirect to login) exactly when it is neither activated nor superuser.
C4_ActivationGuardsAgree ==
    (response.view \in ActivationGuarded /\ ~ByAnonymous)
    => (RedirectedTo("login")
            <=> (~Requester.is_activated /\ ~Requester.is_superuser))

\* C5: for an authenticated identity an Admin-only guard runs the view iff
\* the identity is in Admin or superuser, an Organizer guard iff it is in
\* Admin or Organizer or superuser; anyone else is redirected to dashboard
\* with the no-permission message.
C5_RoleGuards ==
    ~ByAnonymous =>
        /\ response.view \in AdminGuarded =>
             IF IsAdmin(Requester)
             THEN Rendered
             ELSE RedirectedTo("dashboard")
                    /\ messages = <<MSG_NO_PERMISSION>>
        /\ response.view \in OrganizerGuarded =>
             IF IsOrganizerOrAdmin(Requester)
             THEN Rendered
             ELSE RedirectedTo("dashboard")
                    /\ messages = <<MSG_NO_PERMISSION>>

\* C5 witness: a superuser without any group passed an Admin-only mixin.
C5_Witness ==
    /\ Served("AdminDashboardView") /\ ~ByAnonymous
    /\ Requester.is_superuser /\ Requester.groups = {}
    /\ Rendered

\* C6: the same guard requested twice in a row by the same client gives the
\* same decision (same outcome, same redirect target) both times.
C6_GuardTwiceSameDecision ==
    [][(response.view \in GuardViews /\ response'.view = response.view)
        => (response'.status = response.status
            /\ response'.target = response.target)]_vars

\* The messages each denial kind may carry.
UnauthenticatedMsgs == {MSG_PLEASE_LOGIN}
ForbiddenMsgs == {MSG_NO_PERMISSION}
NotActivatedMsgs == {MSG_ACTIVATE_FIRST, MSG_ACTIVATE_LOGGED_OUT}

DenialMsgs ==
    IF ByAnonymous THEN UnauthenticatedMsgs
    ELSE IF RedirectedTo("dashboard") THEN ForbiddenMsgs
    ELSE NotActivatedMsgs

\* C7: every denial by a guard queues one message, and the message tells
\* the denial kind: unauthenticated, insufficient role, not activated.
C7_DenialMessagesDistinguish ==
    (response.view \in GuardViews /\ response.status = "redirect")
    => (Len(messages) = 1 /\ messages[1] \in DenialMsgs)

\* C8: a role dashboard requested directly is rendered only for an identity
\* DashboardView would not refuse: authenticated, and activated or
\* superuser.
C8_DirectDashboardSamePolicy ==
    (response.view \in RoleDashboards /\ Rendered)
    => (~ByAnonymous
        /\ (Requester.is_activated \/ Requester.is_superuser))

\* C9: no guard evaluation, allowing or denying, changes a stored attribute
\* of any user (is_superuser, is_active, is_activated, groups).  A step is
\* a guard evaluation when the response it leaves is that of a guarded view.
C9_GuardsLeaveUsersAlone ==
    [][response'.view \in GuardViews => users' = users]_vars

\* C9 witness: a guard denied and terminated the session of its requester.
C9_Witness ==
    /\ Served("activation_required") /\ ~ByAnonymous
    /\ RedirectedTo("login") /\ session = Anonymous

\* C10: a participant-management view runs only for an identity in Admin or
\* superuser.
C10_ParticipantViewsAdminOnly ==
    (response.view \in ParticipantViews /\ Rendered)
    => (~ByAnonymous /\ IsAdmin(Requester))

---------------------------------------------------------------------------
(* The browser following redirects (urls.py names 'login', 'dashboard') *)

\* Redirects the browser follows before it gives up (browsers stop at about
\* twenty; three already close the dashboard/login loop).
MaxHops == 4

\* The view a redirect target names, run for the client's session.
ResolveView(name) ==
    IF name = "login" THEN "LoginView" ELSE "DashboardView"

ResolveHandler(name, u) ==
    IF name = "login" THEN LoginView_get(u) ELSE DashboardView(u)

\* The browser requests the Location of the redirect it was just given.
FollowRedirect ==
    /\ response.status = "redirect"
    /\ response.target \in {"login", "dashboard"}
    /\ Len(chain) < MaxHops
    /\ chain' = Append(chain, [target |-> response.target, user |-> session])
    /\ Respond(ResolveView(response.target),
               ResolveHandler(response.target, session))
    /\ UNCHANGED <<request, tokens, mail, events, participants, today>>

NextFollow ==
    \/ Next
    \/ FollowRedirect

SpecFollow == Init /\ [][NextFollow]_vars

\* C16: following the redirects of guards and auth views ends at a rendered
\* page without a cycle: the browser is never sent to the same target twice
\* for the same session (the handlers are deterministic, so a repeat never
\* ends).
C16_NoRedirectCycle ==
    \A i, j \in DOMAIN chain : i # j => chain[i] # chain[j]

---------------------------------------------------------------------------
(* Accounts, activation mail and RSVPs: views.py, signals.py, admin.py *)

\* Usernames a visitor can register.
MaxAccounts == 2

Accounts == 1..MaxAccounts

\* Events in the table.
NumEvents == 1

\* A pk no event has (get_object_or_404 raises Http404).
NoSuchEvent == 0

MSG_SIGNUP_OK ==
    Msg("success", "Registration successful! Please check your email to activate your account.")
MSG_FORM_ERRORS == Msg("error", "Please correct the errors below.")
MSG_ALREADY_RSVP == Msg("warning", "You have already RSVP'd to this event.")
MSG_RSVP_OK ==
    Msg("success", "You have successfully RSVP'd! Check your email for confirmation.")
MSG_RSVP_CANCELLED == Msg("success", "Your RSVP has been cancelled.")
MSG_NOT_RSVP == Msg("warning", "You have not RSVP'd to this event.")

\* default_token_generator.make_token(user): a value bound to that user.
\* (Expiry and the last_login stamp are left out: an expired or stale link
\* is a link carrying BadToken.)
make_token(u) == [user |-> u]

BadToken == [user |-> Anonymous]

check_token(u, token) == token = make_token(u)

\* One send_mail call: `sent` is FALSE when it raised.
MailTo(u, subject, pk, raised) ==
    [to |-> u, subject |-> subject, event |-> pk, sent |-> ~raised]

\* send_activation_email (post_save, created): the token is stored first,
\* then send_mail is tried and an exception only printed.
send_activation_email(n, raised) ==
    [tokens |-> [a \in DOMAIN tokens \cup {n} |->
                    IF a = n THEN make_token(n) ELSE tokens[a]],
     mail |-> <<MailTo(n, "Activate Your Event Management Account",
                       NoSuchEvent, raised)>>]

\* Mutant of the row SignUpView.form_valid saves: the account stays active.
SignUpRow_active ==
    [is_superuser |-> FALSE, is_active |-> TRUE, is_activated |-> FALSE,
     has_profile |-> TRUE, groups |-> {"Participant"}]

\* The row SignUpView.form_valid saves: is_active False, group Participant
\* (create_user_profile gives it a profile).
SignUpRow ==
    [is_superuser |-> FALSE, is_active |-> FALSE, is_activated |-> FALSE,
     has_profile |-> TRUE, groups |-> {"Participant"}]

\* What a handler of this part leaves behind: the Result of the access
\* layer plus the tables it may write.
Outcome(r, tk, ml, ev) ==
    [resp |-> r, tokens |-> tk, mail |-> ml, events |-> ev]

Plain(r) == Outcome(r, tokens, <<>>, events)

\* SignUpView.dispatch + post.  n is the username submitted (the form is
\* invalid when a user has it), raised tells whether send_mail raises.
SignUpView(u, n, raised) ==
    IF is_authenticated(u)
    THEN Plain(redirect("dashboard", <<>>, u))
    ELSE IF n \in DOMAIN users
    THEN Plain([status |-> "render", target |-> "SignUpView",
                messages |-> <<MSG_FORM_ERRORS>>, session |-> u,
                users |-> users])
    ELSE LET sig == send_activation_email(n, raised) IN
         Outcome([status |-> "redirect", target |-> "login",
                  messages |-> <<MSG_SIGNUP_OK>>, session |-> u,
                  users |-> [a \in DOMAIN users \cup {n} |->
                                IF a = n THEN SignUpRow ELSE users[a]]],
                 sig.tokens, sig.mail, events)

Min(S) == CHOOSE x \in S : \A y \in S : x <= y

\* Mutant of the loop of send_rsvp_notification: no try/except, the first
\* send_mail that raises ends the loop.
RECURSIVE rsvp_mails_abort(_, _, _)
rsvp_mails_abort(pk, pk_set, raising) ==
    IF pk_set = {} THEN <<>>
    ELSE LET u == Min(pk_set) IN
         IF u \in raising
         THEN <<MailTo(u, "RSVP Confirmation", pk, TRUE)>>
         ELSE <<MailTo(u, "RSVP Confirmation", pk, FALSE)>>
                \o rsvp_mails_abort(pk, pk_set \ {u}, raising)

\* The loop of send_rsvp_notification over User.objects.filter(pk__in=
\* pk_set): one guarded send_mail per user; raising are the users whose
\* send_mail raises.
RECURSIVE rsvp_mails(_, _, _)
rsvp_mails(pk, pk_set, raising) ==
    IF pk_set = {} THEN <<>>
    ELSE LET u == Min(pk_set) IN
         <<MailTo(u, "RSVP Confirmation", pk, u \in raising)>>
            \o rsvp_mails(pk, pk_set \ {u}, raising)

\* Mutant of send_rsvp_notification: the action is not looked at.
send_rsvp_notification_any_action(action, pk, pk_set, raising) ==
    rsvp_mails(pk, pk_set, raising)

\* send_rsvp_notification (m2m_changed of Event.rsvp_users).
send_rsvp_notification(action, pk, pk_set, raising) ==
    IF action = "post_add"
    THEN rsvp_mails(pk, pk_set, raising)
    ELSE <<>>

\* event.rsvp_users.add(*P): the rows missing are inserted and m2m_changed
\* is sent with them as pk_set.
rsvp_users_add(pk, P, raising) ==
    LET pk_set == P \ events[pk].rsvp_users IN
    [events |-> [events EXCEPT ![pk].rsvp_users = @ \cup P],
     mail |-> send_rsvp_notification("post_add", pk, pk_set, raising)]

\* event.rsvp_users.remove(*P).
rsvp_users_remove(pk, P, raising) ==
    LET pk_set == P \cap events[pk].rsvp_users IN
    [events |-> [events EXCEPT ![pk].rsvp_users = @ \ P],
     mail |-> send_rsvp_notification("post_remove", pk, pk_set, raising)]

NotFound(u) ==
    [status |-> "not_found", target |-> "404", messages |-> <<>>,
     session |-> u, users |-> users]

\* RSVPEventView: ParticipantRequiredMixin, then get.
RSVPEventView(u, pk, raising) ==
    LET guard == ParticipantRequiredMixin(u, "RSVPEventView") IN
    IF guard.status # "render" THEN Plain(guard)
    ELSE IF pk \notin DOMAIN events THEN Plain(NotFound(u))
    ELSE IF u \in events[pk].rsvp_users
    THEN Plain(redirect("event_detail", <<MSG_ALREADY_RSVP>>, u))
    ELSE LET m2m == rsvp_users_add(pk, {u}, raising) IN
         Outcome(redirect("event_detail", <<MSG_RSVP_OK>>, u),
                 tokens, m2m.mail, m2m.events)

\* CancelRSVPView: ParticipantRequiredMixin, then get.
CancelRSVPView(u, pk, raising) ==
    LET guard == ParticipantRequiredMixin(u, "CancelRSVPView") IN
    IF guard.status # "render" THEN Plain(guard)
    ELSE IF pk \notin DOMAIN events THEN Plain(NotFound(u))
    ELSE IF u \in events[pk].rsvp_users
    THEN LET m2m == rsvp_users_remove(pk, {u}, raising) IN
         Outcome(redirect("event_detail", <<MSG_RSVP_CANCELLED>>, u),
                 tokens, m2m.mail, m2m.events)
    ELSE Plain(redirect("event_detail", <<MSG_NOT_RSVP>>, u))

\* Nobody registered, nobody logged in, NumEvents events without RSVPs.
InitSite ==
    /\ users = <<>>
    /\ session = Anonymous
    /\ response = NoResponse
    /\ messages = <<>>
    /\ request = NoRequest
    /\ tokens = <<>>
    /\ mail = <<>>
    /\ events = [pk \in 1..NumEvents |-> [date |-> 0, rsvp_users |-> {}]]
    /\ participants = <<>>
    /\ today = 0
    /\ chain = <<>>

\* The client submits `req` to `view`; o is the handler's Outcome.
ServeSite(view, req, o) ==
    /\ Respond(view, o.resp)
    /\ request' = req
    /\ tokens' = o.tokens
    /\ mail' = o.mail
    /\ events' = o.events
    /\ chain' = <<>>
    /\ UNCHANGED <<participants, today>>

EventPks == DOMAIN events \cup {NoSuchEvent}

\* The username submitted is a registered one or the next free one.
PostSignUp ==
    \E n \in Accounts, raised \in BOOLEAN :
        /\ n <= Cardinality(DOMAIN users) + 1
        /\ ServeSite("SignUpView",
                     [kind |-> "signup", username |-> n, raised |-> raised],
                     SignUpView(session, n, raised))

SitePostLogin ==
    \E cred \in DOMAIN users \cup {Anonymous} :
        ServeSite("LoginView", [kind |-> "login", cred |-> cred],
                  Plain(LoginView_post(session, cred)))

SiteGetLogout ==
    ServeSite("LogoutView", [kind |-> "logout"], Plain(LogoutView(session)))

\* The link /activate/<uidb64>/<token>/: uid may name no user.
SiteGetActivate ==
    \E uid \in Accounts, token \in {make_token(a) : a \in Accounts}
                                      \cup {BadToken} :
        LET user == IF uid \in DOMAIN users THEN uid ELSE Anonymous IN
        ServeSite("ActivateAccountView",
                  [kind |-> "activate", uid |-> uid, token |-> token],
                  Plain(ActivateAccountView(session, user,
                            user # Anonymous /\ check_token(user, token))))

GetRSVP ==
    \E pk \in EventPks, raised \in BOOLEAN :
        LET raising == IF raised THEN {session} ELSE {} IN
        ServeSite("RSVPEventView",
                  [kind |-> "rsvp", pk |-> pk, raising |-> raising],
                  RSVPEventView(session, pk, raising))

GetCancelRSVP ==
    \E pk \in EventPks, raised \in BOOLEAN :
        LET raising == IF raised THEN {session} ELSE {} IN
        ServeSite("CancelRSVPView",
                  [kind |-> "cancel", pk |-> pk, raising |-> raising],
                  CancelRSVPView(session, pk, raising))

\* EventAdmin (filter_horizontal rsvp_users): a staff member adds the users
\* P to an event on the admin site.  It is no request of the client: its
\* session stays and no response to it stands.  raising are the users
\* mailed whose send_mail raises.
AdminAddRsvp ==
    \E pk \in DOMAIN events, P \in SUBSET DOMAIN users :
      \E raising \in SUBSET (P \ events[pk].rsvp_users) :
        LET m2m == rsvp_users_add(pk, P, raising) IN
        /\ P # {}
        /\ request' = [kind |-> "admin_add", pk |-> pk, users |-> P,
                       raising |-> raising]
        /\ events' = m2m.events
        /\ mail' = m2m.mail
        /\ response' = NoResponse
        /\ messages' = <<>>
        /\ chain' = <<>>
        /\ UNCHANGED <<users, session, tokens, participants, today>>

NextSite ==
    \/ PostSignUp
    \/ SitePostLogin
    \/ SiteGetLogout
    \/ SiteGetActivate
    \/ GetRSVP
    \/ GetCancelRSVP
    \/ AdminAddRsvp

SpecSite == InitSite /\ [][NextSite]_vars

---------------------------------------------------------------------------
\* A user that has not been activated is inactive, in group Participant and
\* has no session; an activated one is active.
C11_Unverified ==
    \A a \in DOMAIN users :
        IF users[a].is_activated
        THEN users[a].is_active
        ELSE /\ ~users[a].is_active
             /\ "Participant" \in users[a].groups
             /\ session # a

\* A step that activates user a served the activation link of a with the
\* token made for a.
C11_ActivatedByLink ==
    \A a \in DOMAIN users :
        (~users[a].is_activated /\ users'[a].is_activated)
        => /\ request'.kind = "activate"
           /\ request'.uid = a
           /\ request'.token = make_token(a)

\* C11: a user registered through SignUpView is inactive and in group
\* Participant until ActivateAccountView succeeds for it with a valid token
\* (which sets is_active and is_activated), and LoginView.post gives it a
\* session only after that.
C11_LoginOnlyAfterActivation ==
    [](C11_Unverified) /\ [][C11_ActivatedByLink]_vars

\* C11 witness: a registered user logged in (after its activation).
C11_Witness ==
    /\ request.kind = "login"
    /\ session \in DOMAIN users
    /\ "Participant" \in users[session].groups

\* The request of this step asked to add the users P to event pk.
AddedBy(P, pk) ==
    LET pk_set == P \ events[pk].rsvp_users IN
    /\ P \subseteq events'[pk].rsvp_users
    /\ Len(mail') = Cardinality(pk_set)
    /\ {mail'[i].to : i \in DOMAIN mail'} = pk_set
    /\ \A i \in DOMAIN mail' :
          mail'[i].sent = (mail'[i].to \notin request'.raising)

\* C12: a send_mail that raises aborts nothing: sign-up still creates the
\* user with its activation token stored, and an RSVP add keeps the
\* membership and still tries every user of the added set.
C12_MailFailureAbortsNothing ==
    [][/\ (request'.kind = "signup" /\ session = Anonymous
            /\ request'.username \notin DOMAIN users)
          => /\ request'.username \in DOMAIN users'
             /\ tokens'[request'.username] = make_token(request'.username)
             /\ Len(mail') = 1
             /\ mail'[1].to = request'.username
             /\ mail'[1].sent = ~request'.raised
       /\ request'.kind = "admin_add"
          => AddedBy(request'.users, request'.pk)
       /\ (request'.kind = "rsvp" /\ session # Anonymous
            /\ request'.pk \in DOMAIN events)
          => AddedBy({session}, request'.pk)
      ]_vars

\* C12 witness: of two users added at once the first send raised and the
\* second was still tried (and sent).
C12_Witness ==
    /\ request.kind = "admin_add"
    /\ Len(mail) = 2
    /\ ~mail[1].sent /\ mail[2].sent
    /\ request.users \subseteq events[request.pk].rsvp_users

\* C13: an RSVPEventView request that adds the user makes exactly one send
\* attempt, to that user for that event; an RSVP by a user already in the
\* set and any CancelRSVPView request make none.
C13_OneMailPerRsvp ==
    [][/\ (request'.kind = "rsvp" /\ session # Anonymous
            /\ request'.pk \in DOMAIN events)
          => IF session \in events[request'.pk].rsvp_users
             THEN mail' = <<>> /\ events' = events
             ELSE /\ session \in events'[request'.pk].rsvp_users
                  /\ Len(mail') = 1
                  /\ mail'[1].to = session
                  /\ mail'[1].event = request'.pk
       /\ request'.kind = "cancel" => mail' = <<>>
      ]_vars

\* C13 witness: a cancel took the user out of the set and mailed nobody.
C13_Witness ==
    /\ request.kind = "cancel"
    /\ response.target = "event_detail"
    /\ messages = <<MSG_RSVP_CANCELLED>>
    /\ mail = <<>>

---------------------------------------------------------------------------
(* The participant form: forms.py ParticipantForm, views.py *)

\* Rows the participant table can hold, and the longest email typed.
MaxParticipants == 2
MaxEmailLen == 2

\* Characters of an email: a lower-case letter, its upper case, a blank.
Chars == {"a", "A", " "}

RawEmails == UNION {[1..n -> Chars] : n \in 1..MaxEmailLen}

\* str.lower()
lower(str) == [i \in DOMAIN str |-> IF str[i] = "A" THEN "a" ELSE str[i]]

\* str.strip(): leading and trailing blanks go, inner ones stay.
RECURSIVE lstrip(_)
lstrip(str) ==
    IF str # <<>> /\ Head(str) = " " THEN lstrip(Tail(str)) ELSE str

RECURSIVE rstrip(_)
rstrip(str) ==
    IF str # <<>> /\ str[Len(str)] = " "
    THEN rstrip(SubSeq(str, 1, Len(str) - 1))
    ELSE str

strip(str) == rstrip(lstrip(str))

\* self.instance.pk of a form that creates.
NoInstance == 0

\* Mutant of clean_email: the email is stripped but not lower-cased.
clean_email_no_lower(value, instance_pk) ==
    IF value # <<>>
    THEN LET email == strip(value)
             existing == {p \in DOMAIN participants :
                            participants[p] = email /\ p # instance_pk}
         IN [ok |-> existing = {}, email |-> email]
    ELSE [ok |-> TRUE, email |-> value]

\* ParticipantForm.clean_email: ok is FALSE when it raises ValidationError.
clean_email(value, instance_pk) ==
    IF value # <<>>
    THEN LET email == strip(lower(value))
             existing == {p \in DOMAIN participants :
                            participants[p] = email /\ p # instance_pk}
         IN [ok |-> existing = {}, email |-> email]
    ELSE [ok |-> TRUE, email |-> value]

\* ParticipantForm.is_valid and the email it would save.  The EmailField
\* strips the submitted value and requires it; others_valid is the verdict
\* on the fields name and events.
ParticipantForm(raw, instance_pk, others_valid) ==
    LET value == strip(raw) IN
    IF value = <<>> THEN [ok |-> FALSE, email |-> value]
    ELSE LET c == clean_email(value, instance_pk) IN
         [ok |-> c.ok /\ others_valid, email |-> c.email]

\* ParticipantForm.save of a valid form: the table of Participant rows
\* (each row its email) after the instance is written.
ParticipantForm_save(form, pk) ==
    [p \in DOMAIN participants \cup {pk} |->
        IF p = pk THEN form.email ELSE participants[p]]

\* The Participant table starts empty; nobody is registered or logged in.
InitParticipants ==
    /\ users = <<>>
    /\ session = Anonymous
    /\ response = NoResponse
    /\ messages = <<>>
    /\ EmptySite

\* One submission of a bound ParticipantForm: is_valid, then save.
SubmitParticipantForm(req, form) ==
    /\ request' = req
    /\ response' = [view |-> "ParticipantForm", user |-> session,
                    status |-> IF form.ok THEN "saved" ELSE "invalid",
                    target |-> "ParticipantForm"]
    /\ participants' = IF form.ok
                       THEN ParticipantForm_save(form,
                                IF req.pk = NoInstance
                                THEN Cardinality(DOMAIN participants) + 1
                                ELSE req.pk)
                       ELSE participants
    /\ UNCHANGED <<users, session, messages, tokens, mail, events, today,
                   chain>>

\* ParticipantForm(data) of a new participant.
PostParticipantCreate ==
    \E raw \in RawEmails, others_valid \in BOOLEAN :
        /\ Cardinality(DOMAIN participants) < MaxParticipants
        /\ SubmitParticipantForm(
               [kind |-> "participant_create", pk |-> NoInstance,
                email |-> raw, others_valid |-> others_valid],
               ParticipantForm(raw, NoInstance, others_valid))

\* ParticipantForm(data, instance=participant) of a stored participant.
PostParticipantUpdate ==
    \E pk \in DOMAIN participants, raw \in RawEmails,
       others_valid \in BOOLEAN :
        SubmitParticipantForm(
            [kind |-> "participant_update", pk |-> pk,
             email |-> raw, others_valid |-> others_valid],
            ParticipantForm(raw, pk, others_valid))

NextParticipants ==
    \/ PostParticipantCreate
    \/ PostParticipantUpdate

SpecParticipants == InitParticipants /\ [][NextParticipants]_vars

\* The normalised form of an email: lower-cased and stripped.
Normalised(str) == strip(lower(str))

\* Participants other than pk that have the normalised email of raw.
Holders(raw, pk) ==
    {p \in DOMAIN participants :
        p # pk /\ Normalised(participants[p]) = Normalised(raw)}

C14_DistinctEmails ==
    \A p, q \in DOMAIN participants :
        p # q => Normalised(participants[p]) # Normalised(participants[q])

\* A submission with an email and its other fields valid is saved
\* exactly when no participant but the edited one holds the email.
C14_Submission ==
    (/\ request'.kind \in {"participant_create", "participant_update"}
     /\ request'.others_valid
     /\ Normalised(request'.email) # <<>>)
    => IF Holders(request'.email, request'.pk) = {}
       THEN /\ response'.status = "saved"
            /\ \E p \in DOMAIN participants' :
                  /\ participants'[p] = Normalised(request'.email)
                  /\ request'.kind = "participant_update"
                        => p = request'.pk
       ELSE /\ response'.status = "invalid"
            /\ participants' = participants

\* C14: through ParticipantForm no two participants ever share a
\* normalised email: a create is rejected when a participant has the
\* email, an update when another participant has it, and an update that
\* keeps the participant's own email is accepted.
C14_UniqueNormalisedEmail ==
    [](C14_DistinctEmails) /\ [][C14_Submission]_vars

\* C14 witness: with two participants stored, an update that re-submitted
\* the participant's own email in upper case was accepted.
C14_Witness ==
    /\ request.kind = "participant_update"
    /\ Cardinality(DOMAIN participants) = 2
    /\ response.status = "saved"
    /\ request.email # Normalised(request.email)
    /\ participants[request.pk] = Normalised(request.email)

---------------------------------------------------------------------------
(* The event form: forms.py EventForm, views.py EventCreateView and
   EventUpdateView *)

\* Events the table can hold, and the last day of the calendar; days are
\* counted from day 0.
MaxEvents == 2
MaxDay == 2

Days == 0..MaxDay

\* Mutant of clean_date: a past date raises nothing.
clean_date_accepts_past(date) == TRUE

\* EventForm.clean_date: FALSE when it raises ValidationError.  `today` is
\* timezone.now().date(); a cleaned date is never falsy.
clean_date(date) == ~(date < today)

\* EventForm.is_valid; others_valid is the verdict on the other fields.
EventForm(date, others_valid) == clean_date(date) /\ others_valid

MSG_EVENT_CREATED == Msg("success", "Event created successfully!")
MSG_EVENT_UPDATED == Msg("success", "Event updated successfully!")

\* What an event view leaves behind: the Result and the stored events.
Saved(r, table) == [resp |-> r, table |-> table]

FormInvalid(u, view) ==
    [status |-> "render", target |-> view, messages |-> <<MSG_FORM_ERRORS>>,
     session |-> u, users |-> users]

\* EventCreateView.post: OrganizerRequiredMixin, then the form.
EventCreateView_post(u, date, others_valid) ==
    LET guard == OrganizerRequiredMixin(u, "EventCreateView")
        pk == Cardinality(DOMAIN events) + 1
    IN
    IF guard.status # "render" THEN Saved(guard, events)
    ELSE IF ~EventForm(date, others_valid)
    THEN Saved(FormInvalid(u, "EventCreateView"), events)
    ELSE Saved(redirect("event_list", <<MSG_EVENT_CREATED>>, u),
               [e \in DOMAIN events \cup {pk} |->
                   IF e = pk THEN [date |-> date, rsvp_users |-> {}]
                   ELSE events[e]])

\* EventUpdateView.post: OrganizerRequiredMixin, get_object, the form.
EventUpdateView_post(u, pk, date, others_valid) ==
    LET guard == OrganizerRequiredMixin(u, "EventUpdateView") IN
    IF guard.status # "render" THEN Saved(guard, events)
    ELSE IF pk \notin DOMAIN events THEN Saved(NotFound(u), events)
    ELSE IF ~EventForm(date, others_valid)
    THEN Saved(FormInvalid(u, "EventUpdateView"), events)
    ELSE Saved(redirect("event_detail", <<MSG_EVENT_UPDATED>>, u),
               [events EXCEPT ![pk].date = date])

\* A member of group Organizer, activated.
OrganizerRow ==
    [is_superuser |-> FALSE, is_active |-> TRUE, is_activated |-> TRUE,
     has_profile |-> TRUE, groups |-> {"Organizer"}]

\* Every user is an organizer; the client is one of them or anonymous; no
\* event is stored; it is day 0.
InitEvents ==
    /\ users = [u \in Users |-> OrganizerRow]
    /\ session \in Users \cup {Anonymous}
    /\ response = NoResponse
    /\ messages = <<>>
    /\ EmptySite

ServeEvents(view, req, o) ==
    /\ Respond(view, o.resp)
    /\ request' = req
    /\ events' = o.table
    /\ chain' = <<>>
    /\ UNCHANGED <<tokens, mail, participants, today>>

PostEventCreate ==
    \E date \in Days, others_valid \in BOOLEAN :
        /\ Cardinality(DOMAIN events) < MaxEvents
        /\ ServeEvents("EventCreateView",
               [kind |-> "event_create", pk |-> NoSuchEvent,
                date |-> date, others_valid |-> others_valid],
               EventCreateView_post(session, date, others_valid))

PostEventUpdate ==
    \E pk \in 1..MaxEvents, date \in Days, others_valid \in BOOLEAN :
        ServeEvents("EventUpdateView",
            [kind |-> "event_update", pk |-> pk,
             date |-> date, others_valid |-> others_valid],
            EventUpdateView_post(session, pk, date, others_valid))

\* Midnight: timezone.now().date() moves on.
NextDay ==
    /\ today < MaxDay
    /\ today' = today + 1
    /\ UNCHANGED <<users, session, response, messages, request, tokens,
                   mail, events, participants, chain>>

NextEvents ==
    \/ PostEventCreate
    \/ PostEventUpdate
    \/ NextDay

SpecEvents == InitEvents /\ [][NextEvents]_vars

\* The step is a submission to one of the two event views.
EventSubmission ==
    /\ today' = today
    /\ request'.kind \in {"event_create", "event_update"}

\* The events the step created or changed.
Written ==
    {e \in DOMAIN events' : e \notin DOMAIN events \/ events'[e] # events[e]}

\* C15: EventForm never accepts an event dated before the current date:
\* every event created or updated through EventCreateView or
\* EventUpdateView has date >= today at the moment of the submission, and
\* a submission with an earlier date is rejected and leaves the stored
\* events unchanged.
C15_NoPastDateAccepted ==
    [][EventSubmission =>
        /\ \A e \in Written : events'[e].date >= today
        /\ response'.status = "redirect"
              /\ response'.target \in {"event_list", "event_detail"}
           => request'.date >= today
        /\ request'.date < today
           => /\ events' = events
              /\ ~(/\ response'.status = "redirect"
                   /\ response'.target \in {"event_list", "event_detail"})
      ]_vars

\* C15 witness: an organizer's update of a stored event to a date already
\* past, the rest of the form valid, was rejected.
C15_Witness ==
    /\ request.kind = "event_update"
    /\ request.pk \in DOMAIN events
    /\ request.others_valid
    /\ response.user # Anonymous
    /\ request.date < today
    /\ response.status = "render"
    /\ response.target = "EventUpdateView"

====
